---- MODULE Spec2Model ----
(***************************************************************************)
(* Model of the packaging manifest setup.py of remoroo-core.               *)
(*                                                                         *)
(* The manifest is a straight-line module body: it imports setup and       *)
(* find_packages, evaluates the keyword arguments of the setup call (one   *)
(* of which calls find_packages over the directory "src") and calls setup. *)
(* The packaging tooling evaluates the manifest in some project directory  *)
(* and process environment, and may evaluate it again later in a changed   *)
(* one.                                                                    *)
(*                                                                         *)
(* Directory names, package names and requirement strings are sequences of *)
(* characters, so that joining on ".", splitting on "." and parsing a      *)
(* requirement are computed and not assumed.  Paths are sequences of       *)
(* directory names relative to the project directory.                      *)
(***************************************************************************)
EXTENDS Integers, Sequences, FiniteSets, TLC

VARIABLES
    pc,          \* the statement of the manifest to execute next, or "done"
    fs,          \* the project directory: its directories and which hold __init__.py
    environ,     \* the process environment: variable name -> value or Unset
    imported,    \* the names bound in the manifest's module namespace
    packages,    \* the value of the packages= argument once evaluated
    dist,        \* <<>> or <<kw>>: the keyword arguments setup was called with
    setupCalls,  \* the number of setup calls of the current evaluation
    prev         \* <<>> or <<kw>>: what the previous evaluation declared

vars == <<pc, fs, environ, imported, packages, dist, setupCalls, prev>>

----------------------------------------------------------------------------
(* Bounds and the inputs drawn from them *)

\* at most this many directories exist below the project directory
MaxDirs == 3

SRC == <<"s", "r", "c">>
PKG_A == <<"a">>
DOTTED == <<"b", ".", "c">>

\* the directory names a project directory may use
DirNames == {SRC, PKG_A, DOTTED}

Unset == "<unset>"
EnvNames == {"PACKAGE_VERSION"}
EnvValues == {Unset, "9.9.9"}
Environments == [EnvNames -> EnvValues]

\* the prefix-closed sets of at most n directory paths
RECURSIVE DirSets(_)
DirSets(n) ==
    IF n = 0 THEN {{}}
    ELSE LET S == DirSets(n - 1)
         IN  S \cup UNION { { t \cup {p \o <<d>>} : p \in t \cup {<<>>}, d \in DirNames }
                            : t \in S }

FileSystems ==
    UNION { { [dirs |-> ds, inits |-> is] : is \in SUBSET ds }
            : ds \in { t \in DirSets(MaxDirs) : Cardinality(t) <= MaxDirs } }

\* one change of the project directory between two evaluations
Edits(f) ==
    {f}
    \cup { [f EXCEPT !.inits = (f.inits \ {p}) \cup ({p} \ f.inits)] : p \in f.dirs }
    \cup { [dirs |-> f.dirs \ {p}, inits |-> f.inits \ {p}]
           : p \in { q \in f.dirs : \A r \in f.dirs : Len(r) > Len(q) => SubSeq(r, 1, Len(q)) # q } }
    \cup { g \in { [dirs |-> f.dirs \cup {p \o <<d>>}, inits |-> f.inits]
                   : p \in f.dirs \cup {<<>>}, d \in DirNames }
           : Cardinality(g.dirs) <= MaxDirs }

----------------------------------------------------------------------------
(* Strings *)

RECURSIVE JoinWith(_, _)
\* sep.join(parts)
JoinWith(parts, sep) ==
    IF parts = <<>> THEN <<>>
    ELSE IF Len(parts) = 1 THEN parts[1]
    ELSE parts[1] \o <<sep>> \o JoinWith(Tail(parts), sep)

RECURSIVE SplitOn(_, _)
\* s.split(sep)
SplitOn(s, sep) ==
    IF \A i \in 1..Len(s) : s[i] # sep THEN <<s>>
    ELSE LET i == CHOOSE k \in 1..Len(s) : s[k] = sep /\ \A j \in 1..(k - 1) : s[j] # sep
         IN  <<SubSeq(s, 1, i - 1)>> \o SplitOn(SubSeq(s, i + 1, Len(s)), sep)

----------------------------------------------------------------------------
(* What the tooling does with the values the manifest passes *)

\* convert_path: a "/"-separated directory string as a path; "." is the
\* project directory itself
ConvertPath(w) == IF w = <<".">> THEN <<>> ELSE SplitOn(w, "/")

\* the subdirectories of directory dir
Children(f, dir) ==
    { p \in f.dirs : Len(p) = Len(dir) + 1 /\ SubSeq(p, 1, Len(dir)) = dir }

\* a directory is a package when it holds __init__.py
LooksLikePackage(f, p) == p \in f.inits

\* a directory whose name contains "." is never descended into
SkipsDir(f, full) ==
    \/ \E i \in 1..Len(full[Len(full)]) : full[Len(full)][i] = "."
    \/ ~LooksLikePackage(f, full)

RECURSIVE FindIter(_, _, _)
\* the walk below root: every package directory yields its path relative to
\* where with the separators replaced by ".", and is descended into
FindIter(f, where, root) ==
    UNION { IF SkipsDir(f, full) THEN {}
            ELSE {JoinWith(SubSeq(full, Len(where) + 1, Len(full)), ".")}
                 \cup FindIter(f, where, full)
            : full \in Children(f, root) }

\* find_packages(where=w) with the default include and exclude
find_packages(f, w) == FindIter(f, ConvertPath(w), ConvertPath(w))

\* the directory a package's modules are taken from: the entry of package_dir
\* for the longest leading part of the dotted name ("" for none), followed by
\* the remaining parts
get_package_dir(package_dir, package) ==
    LET path == SplitOn(package, ".")
        hits == { k \in 0..Len(path) : JoinWith(SubSeq(path, 1, k), ".") \in DOMAIN package_dir }
    IN  IF hits = {} THEN path
        ELSE LET k == CHOOSE h \in hits : \A g \in hits : g <= h
             IN  ConvertPath(package_dir[JoinWith(SubSeq(path, 1, k), ".")])
                 \o SubSeq(path, k + 1, Len(path))

\* the characters that start a version specifier
OpChars == {"<", ">", "=", "!", "~"}

\* the length of the longest prefix of s made of characters (not) in cs
PrefixLen(s, cs, inside) ==
    LET stops == { i \in 1..Len(s) : (s[i] \in cs) # inside }
    IN  IF stops = {} THEN Len(s) ELSE (CHOOSE i \in stops : \A j \in stops : i <= j) - 1

\* one version specifier: its comparison operator and its version
ParseSpecifier(c) ==
    LET n == PrefixLen(c, OpChars, TRUE)
    IN  [op |-> SubSeq(c, 1, n), version |-> SubSeq(c, n + 1, Len(c))]

\* a requirement string: the project name and its comma-separated specifiers
ParseRequirement(r) ==
    LET n == PrefixLen(r, OpChars, FALSE)
        rest == SubSeq(r, n + 1, Len(r))
        clauses == IF rest = <<>> THEN <<>> ELSE SplitOn(rest, ",")
    IN  [name |-> SubSeq(r, 1, n),
         specifiers |-> [i \in 1..Len(clauses) |-> ParseSpecifier(clauses[i])]]

----------------------------------------------------------------------------
(* The manifest *)

\* the name spelt with an underscore
NameUnderscore == "remoroo_core"

\* name="remoroo-core"
Name == "remoroo-core"

\* the version of the following release
VersionBumped == "0.1.3"

\* version="0.1.2"
Version == "0.1.2"

\* find_packages() without where=: the search starts in the project directory
WhereDefault == <<".">>

\* where="src"
Where == SRC

\* package_dir={"": "src"}
PackageDir == [k \in {<<>>} |-> SRC]

\* the dependency pinned to one version
InstallRequiresPinned ==
    << <<"p", "y", "d", "a", "n", "t", "i", "c", "=", "=", "2", ".", "0", ".", "0">> >>

\* install_requires=["pydantic>=2.0.0"]
InstallRequires ==
    << <<"p", "y", "d", "a", "n", "t", "i", "c", ">", "=", "2", ".", "0", ".", "0">> >>

\* the setup call with a console script declared as well
SetupKwargsWithEntryPoints ==
    [name |-> Name,
     version |-> Version,
     packages |-> packages,
     package_dir |-> PackageDir,
     install_requires |-> InstallRequires,
     entry_points |-> <<"console_scripts">>]

\* the setup call with the version taken from the environment when it is set
SetupKwargsVersionFromEnv ==
    [name |-> Name,
     version |-> IF environ["PACKAGE_VERSION"] # Unset
                 THEN environ["PACKAGE_VERSION"] ELSE Version,
     packages |-> packages,
     package_dir |-> PackageDir,
     install_requires |-> InstallRequires]

\* the keyword arguments of the setup call
SetupKwargs ==
    [name |-> Name,
     version |-> Version,
     packages |-> packages,
     package_dir |-> PackageDir,
     install_requires |-> InstallRequires]

\* a module body that calls setup again after the call returns
NextStmtRetry(stmt) ==
    CASE stmt = "import" -> "find_packages"
      [] stmt = "find_packages" -> "setup"
      [] stmt = "setup" -> "setup"

\* the module body is straight-line: each statement is followed by the next
NextStmt(stmt) ==
    CASE stmt = "import" -> "find_packages"
      [] stmt = "find_packages" -> "setup"
      [] stmt = "setup" -> "done"

Init ==
    /\ pc = "import"
    /\ fs \in FileSystems
    /\ environ \in Environments
    /\ imported = {}
    /\ packages = {}
    /\ dist = <<>>
    /\ setupCalls = 0
    /\ prev = <<>>

\* from setuptools import setup, find_packages
Import ==
    /\ pc = "import"
    /\ imported' = imported \cup {"setup", "find_packages"}
    /\ pc' = NextStmt(pc)
    /\ UNCHANGED <<fs, environ, packages, dist, setupCalls, prev>>

\* packages=find_packages(where="src"), evaluated before the call
FindPackages ==
    /\ pc = "find_packages"
    /\ "find_packages" \in imported
    /\ packages' = find_packages(fs, Where)
    /\ pc' = NextStmt(pc)
    /\ UNCHANGED <<fs, environ, imported, dist, setupCalls, prev>>

\* setup(...)
Setup ==
    /\ pc = "setup"
    /\ "setup" \in imported
    /\ dist' = <<SetupKwargs>>
    /\ setupCalls' = setupCalls + 1
    /\ pc' = NextStmt(pc)
    /\ UNCHANGED <<fs, environ, imported, packages, prev>>

\* the tooling evaluates the manifest again, in a fresh interpreter and a
\* possibly changed project directory and environment
Reevaluate ==
    /\ pc = "done"
    /\ prev' = dist
    /\ fs' \in Edits(fs)
    /\ environ' \in Environments
    /\ imported' = {}
    /\ packages' = {}
    /\ dist' = <<>>
    /\ setupCalls' = 0
    /\ pc' = "import"

Next == Import \/ FindPackages \/ Setup \/ Reevaluate

Spec == Init /\ [][Next]_vars

\* the interpreter runs the module body to its end; the tooling need not
\* evaluate the manifest again
FairSpec == Spec /\ WF_vars(Import \/ FindPackages \/ Setup)

----------------------------------------------------------------------------
(* Properties *)

PYDANTIC == <<"p", "y", "d", "a", "n", "t", "i", "c">>

\* C1: the setup call declares exactly one dependency, and it parses to the
\* project pydantic with the single specifier >= 2.0.0: no second
\* requirement, no second specifier (upper bound), no == pin.
C1_SinglePydanticLowerBound ==
    dist # <<>> =>
        LET reqs == dist[1].install_requires
        IN  /\ Len(reqs) = 1
            /\ ParseRequirement(reqs[1]) =
                   [name |-> PYDANTIC,
                    specifiers |-> <<[op |-> <<">", "=">>,
                                      version |-> <<"2", ".", "0", ".", "0">>]>>]

\* setup has been called with a requirement that carries a specifier
C1_Witness ==
    /\ dist # <<>>
    /\ Len(dist[1].install_requires) = 1
    /\ Len(ParseRequirement(dist[1].install_requires[1]).specifiers) = 1

\* C2: the directory find_packages searches is the directory package_dir maps
\* the root namespace "" to, that directory is src, and every package the
\* setup call declares resolves through package_dir to a package directory
\* that exists below src.
C2_DiscoveryUnderSourceRoot ==
    dist # <<>> =>
        /\ <<>> \in DOMAIN dist[1].package_dir
        /\ dist[1].package_dir[<<>>] = SRC
        /\ ConvertPath(Where) = ConvertPath(dist[1].package_dir[<<>>])
        /\ \A p \in dist[1].packages :
               LET d == get_package_dir(dist[1].package_dir, p)
               IN  /\ d \in fs.dirs
                   /\ LooksLikePackage(fs, d)
                   /\ d[1] = SRC

\* setup has been called with a discovered package while the project
\* directory also holds a package outside src
C2_Witness ==
    /\ dist # <<>>
    /\ dist[1].packages # {}
    /\ \E p \in fs.inits : p[1] # SRC

\* C3: the name the setup call declares is remoroo-core.
C3_NameIsRemorooCore == dist # <<>> => dist[1].name = "remoroo-core"

\* setup has been called and has recorded a name
C3_Witness == pc = "done" /\ dist # <<>> /\ "name" \in DOMAIN dist[1]

\* C4: the version the setup call declares is 0.1.2.
C4_VersionIs012 == dist # <<>> => dist[1].version = "0.1.2"

\* setup has been called and has recorded a version
C4_Witness == pc = "done" /\ dist # <<>> /\ "version" \in DOMAIN dist[1]

C6_OneStraightLinePass ==
    /\ [][ /\ <<pc, pc'>> \in { <<"import", "find_packages">>,
                                <<"find_packages", "setup">>,
                                <<"setup", "done">>,
                                <<"done", "import">> }
           /\ setupCalls' = IF pc' = "done" THEN 1 ELSE 0
           /\ pc # "done" => prev' = prev
         ]_vars
    /\ (pc = "import") ~> (pc = "done" /\ setupCalls = 1)

\* a second evaluation has finished with its one setup call
C6_Witness == pc = "done" /\ setupCalls = 1 /\ prev # <<>>

\* C7: an evaluation declares the same name, version, package_dir and
\* install_requires as the evaluation before it, whatever the project
\* directory and the environment of the two; by transitivity all evaluations
\* agree on the four.  Only packages may differ.
C7_SameDeclarationInAnyEnvironment ==
    (dist # <<>> /\ prev # <<>>) =>
        /\ dist[1].name = prev[1].name
        /\ dist[1].version = prev[1].version
        /\ dist[1].package_dir = prev[1].package_dir
        /\ dist[1].install_requires = prev[1].install_requires
        /\ DOMAIN dist[1] = DOMAIN prev[1]

\* two evaluations have finished and found different packages
C7_Witness ==
    /\ dist # <<>>
    /\ prev # <<>>
    /\ dist[1].packages # prev[1].packages

====
